---- MODULE Spec2Model ----
(***************************************************************************)
(* A model of bhttp (rogpeppe/bhttp), a Go clone of http(1).               *)
(*                                                                         *)
(* Strings are sequences of characters; each character is a one-element    *)
(* piece of a Go string.  "xFF" stands for a byte that is not valid UTF-8  *)
(* and "uFFFD" for the replacement character U+FFFD that Go's range loop   *)
(* yields when it decodes such a byte.                                     *)
(*                                                                         *)
(* Four specifications share the variables:                                *)
(*   SpecParse  one call of parseKeyVal on an arbitrary bounded token;     *)
(*   Spec       one invocation of main0: parseArgs, the addKeyVal loop of  *)
(*              newRequest, newClient, request.do, showResponse and the    *)
(*              exit code;                                                 *)
(*   SpecDo     request.do applied to an arbitrary request;                *)
(*   SpecShow   showResponse and the end of main0 on an arbitrary          *)
(*              response and arbitrary output flags.                       *)
(***************************************************************************)
EXTENDS Integers, Sequences, FiniteSets, TLC

VARIABLES
    tok,        \* SpecParse: the argument handed to parseKeyVal
    kv,         \* SpecParse: the (keyVal, error) pair parseKeyVal returned
    ppc,        \* SpecParse: "call" before parseKeyVal ran, "return" after
    argv,       \* Spec: the positional arguments as given, fset.Args()
    args,       \* Spec: the arguments parseArgs has not consumed yet
    p,          \* Spec: the params value parseArgs fills in
    req,        \* Spec: the request value newRequest fills in
    httpReq,    \* Spec: the http.Request that request.do hands to the client
    idx,        \* Spec: the index of the range loop being executed
    err,        \* Spec: the error main0 ended with (NoError when none)
    exitCode,   \* Spec: the exit code of the process, -1 while it runs
    stdinRead,  \* Spec: whether standard input was read
    resp,       \* Spec: the response the client returned
    stdout,     \* Spec: what showResponse wrote to standard output
    stderr,     \* Spec: the warnings written to standard error
    calls,      \* Spec: how many requests were handed to client.Do
    filesRead,  \* Spec: the paths ioutil.ReadFile was called with, in order
    pc          \* Spec: the position of main0

vars == <<tok, kv, ppc, argv, args, p, req, httpReq, idx, err, exitCode,
          stdinRead, resp, stdout, stderr, calls, filesRead, pc>>

parseVars == <<tok, kv, ppc>>
outVars   == <<resp, stdout, stderr>>
envVars   == <<calls, filesRead>>
mainVars  == <<argv, args, p, req, httpReq, idx, err, exitCode, stdinRead,
               resp, stdout, stderr, calls, filesRead, pc>>

----------------------------------------------------------------------------
(* Bounds *)

\* Longest token SpecParse hands to parseKeyVal.
MaxLen == 5

\* Most request items on one command line in Spec.
MaxItems == 2

----------------------------------------------------------------------------
(* Characters and strings *)

BadByte   == "xFF"
RuneError == "uFFFD"

\* What `for i, r := range s` followed by string(r) turns one piece of the
\* string into: an invalid byte decodes to U+FFFD, anything else to itself.
Rune(c) == IF c = BadByte THEN RuneError ELSE c

\* Only the first character of the separator compared.
HasPrefixAtFirstChar(s, i, sep) == i <= Len(s) /\ s[i] = sep[1]

\* strings.HasPrefix(s[i:], sep), with i counted from 1.
HasPrefixAt(s, i, sep) ==
    /\ i + Len(sep) - 1 <= Len(s)
    /\ \A j \in 1..Len(sep) : s[i + j - 1] = sep[j]

\* s[i:], with i counted from 1.
SliceFrom(s, i) == SubSeq(s, i, Len(s))

----------------------------------------------------------------------------
(* parseKeyVal *)

ErrEmptyKey == "empty key"
ErrNoSep    == "no key-pair separator found"

\* The separator list with the short separators first: an ordering bug.
separatorsShortFirst ==
    << <<":">>, <<":", "=">>, <<":", "=", "@">>,
       <<"=">>, <<"=", "=">>, <<"=", "@">>, <<"@">> >>

\* The separator list without the form file separator.
separatorsNoAt ==
    << <<":", "=", "@">>, <<":", "=">>, <<":">>,
       <<"=", "=">>, <<"=", "@">>, <<"=">> >>

\* separators holds all the possible key-pair separators, most ambiguous first.
separators ==
    << <<":", "=", "@">>,   \* raw JSON file
       <<":", "=">>,        \* raw JSON value
       <<":">>,             \* HTTP header
       <<"=", "=">>,        \* URL parameter
       <<"=", "@">>,        \* data field from file
       <<"=">>,             \* data field
       <<"@">> >>           \* form file field

\* The inner loop `for _, sep := range separators`: the index of the first
\* separator of the list that s[i:] starts with, 0 when there is none.
firstSep(s, i) ==
    LET hits == {n \in 1..Len(separators) : HasPrefixAt(s, i, separators[n])}
    IN  IF hits = {} THEN 0
        ELSE CHOOSE n \in hits : \A m \in hits : n <= m

\* A backslash starts an escape whatever came before it.
startsEscapeAlways(r, wasBackslash) == r = "\\"

\* `r == '\\' && !wasBackslash`
startsEscape(r, wasBackslash) == r = "\\" /\ ~wasBackslash

\* The empty-key test left out.
keyIsEmptyNever(keyBytes) == FALSE

\* `len(keyBytes) == 0`
keyIsEmpty(keyBytes) == Len(keyBytes) = 0

\* The value taken from the character after the split position.
valueAfterOneChar(s, i, sep) == SliceFrom(s, i + 1)

\* `val := s[i+len(sep):]`
valueAfter(s, i, sep) == SliceFrom(s, i + Len(sep))

\* The zero keyVal returned along with an error.
keyValError(e) == [err |-> e, key |-> <<>>, sep |-> <<>>, val |-> <<>>]

\* The body of `for i, r := range s`, from position i on, and the return
\* after the loop.
RECURSIVE parseKeyValFrom(_, _, _, _)
parseKeyValFrom(s, i, keyBytes, wasBackslash) ==
    IF i > Len(s) THEN keyValError(ErrNoSep)
    ELSE
      LET r == Rune(s[i])
          n == firstSep(s, i)
      IN  IF startsEscape(r, wasBackslash)
            THEN parseKeyValFrom(s, i + 1, keyBytes, TRUE)
          ELSE IF wasBackslash
            THEN parseKeyValFrom(s, i + 1, Append(keyBytes, r), FALSE)
          ELSE IF n # 0
            THEN IF keyIsEmpty(keyBytes)
                   THEN keyValError(ErrEmptyKey)
                   ELSE [err |-> "",
                         key |-> keyBytes,
                         sep |-> separators[n],
                         val |-> valueAfter(s, i, separators[n])]
          ELSE parseKeyValFrom(s, i + 1, Append(keyBytes, r), FALSE)

parseKeyVal(s) == parseKeyValFrom(s, 1, <<>>, FALSE)

----------------------------------------------------------------------------
(* Letters, byte order and the library string functions the program calls *)

LowerLetters ==
    << "a", "b", "c", "d", "e", "f", "g", "h", "i", "j", "k", "l", "m",
       "n", "o", "p", "q", "r", "s", "t", "u", "v", "w", "x", "y", "z" >>

UpperLetters ==
    << "A", "B", "C", "D", "E", "F", "G", "H", "I", "J", "K", "L", "M",
       "N", "O", "P", "Q", "R", "S", "T", "U", "V", "W", "X", "Y", "Z" >>

Digits == << "0", "1", "2", "3", "4", "5", "6", "7", "8", "9" >>

\* The characters of the model in byte order (a string is compared byte by
\* byte by sort.Strings and by the map-key sort of encoding/json).
ByteOrder ==
    << " ", "\"", "%", "&", "-", ".", "/" >> \o Digits \o << ":", "=", "?", "@" >>
    \o UpperLetters \o << "\\" >> \o LowerLetters \o << RuneError, BadByte >>

IndexIn(seq, c) ==
    IF \E i \in 1..Len(seq) : seq[i] = c
      THEN CHOOSE i \in 1..Len(seq) : seq[i] = c
      ELSE 0

IsLower(c)  == IndexIn(LowerLetters, c) # 0
IsUpper(c)  == IndexIn(UpperLetters, c) # 0
IsDigit(c)  == IndexIn(Digits, c) # 0

ToUpperChar(c) == IF IsLower(c) THEN UpperLetters[IndexIn(LowerLetters, c)] ELSE c
ToLowerChar(c) == IF IsUpper(c) THEN LowerLetters[IndexIn(UpperLetters, c)] ELSE c

\* strings.ToUpper
ToUpper(s) == [i \in 1..Len(s) |-> ToUpperChar(s[i])]

\* strings.HasPrefix(s, prefix)
HasPrefix(s, prefix) == HasPrefixAt(s, 1, prefix)

\* a < b as Go compares strings.
RECURSIVE StrLess(_, _)
StrLess(a, b) ==
    IF b = <<>> THEN FALSE
    ELSE IF a = <<>> THEN TRUE
    ELSE IF Head(a) # Head(b)
      THEN IndexIn(ByteOrder, Head(a)) < IndexIn(ByteOrder, Head(b))
    ELSE StrLess(Tail(a), Tail(b))

\* The strings of the finite set S in increasing order.
RECURSIVE SortStrings(_)
SortStrings(S) ==
    IF S = {} THEN <<>>
    ELSE LET least == CHOOSE a \in S : \A b \in S \ {a} : StrLess(a, b)
         IN  <<least>> \o SortStrings(S \ {least})

RECURSIVE Concat(_)
Concat(seqs) == IF seqs = <<>> THEN <<>> ELSE Head(seqs) \o Concat(Tail(seqs))

\* strings.Join(parts, sep)
RECURSIVE Join(_, _)
Join(parts, sep) ==
    IF parts = <<>> THEN <<>>
    ELSE IF Len(parts) = 1 THEN parts[1]
    ELSE parts[1] \o sep \o Join(Tail(parts), sep)

----------------------------------------------------------------------------
(* Multi-valued maps: http.Header and url.Values *)

EmptyMap == [k \in {} |-> <<>>]

\* The value put before the values the key has.
ValuesAddInFront(m, key, val) ==
    IF key \in DOMAIN m
      THEN [m EXCEPT ![key] = <<val>> \o @]
      ELSE [k \in DOMAIN m \cup {key} |-> IF k = key THEN <<val>> ELSE m[k]]

\* url.Values.Add: append to the values of key.
ValuesAdd(m, key, val) ==
    IF key \in DOMAIN m
      THEN [m EXCEPT ![key] = Append(@, val)]
      ELSE [k \in DOMAIN m \cup {key} |-> IF k = key THEN <<val>> ELSE m[k]]

\* A byte that may appear in a header field name (an HTTP token character).
IsTokenChar(c) == IsLower(c) \/ IsUpper(c) \/ IsDigit(c) \/ c \in {"-", ".", "%", "&"}

\* textproto.CanonicalMIMEHeaderKey: a name that is no token is left alone;
\* otherwise the first letter and every letter after a '-' is upper case, the
\* others lower case.
CanonicalHeaderKey(key) ==
    IF \E i \in 1..Len(key) : ~IsTokenChar(key[i]) THEN key
    ELSE [i \in 1..Len(key) |->
            IF i = 1 \/ key[i - 1] = "-" THEN ToUpperChar(key[i])
            ELSE ToLowerChar(key[i])]

\* The value takes the place of the values the header has.
HeaderAddReplacing(h, key, val) ==
    LET ck == CanonicalHeaderKey(key)
    IN  [k \in DOMAIN h \cup {ck} |-> IF k = ck THEN <<val>> ELSE h[k]]

\* http.Header.Add
HeaderAdd(h, key, val) == ValuesAdd(h, CanonicalHeaderKey(key), val)

\* http.Header.Set
HeaderSet(h, key, val) ==
    LET ck == CanonicalHeaderKey(key)
    IN  [k \in DOMAIN h \cup {ck} |-> IF k = ck THEN <<val>> ELSE h[k]]

\* http.Header.Get: the first value of the key, "" when there is none.
HeaderGet(h, key) ==
    LET ck == CanonicalHeaderKey(key)
    IN  IF ck \in DOMAIN h /\ Len(h[ck]) > 0 THEN h[ck][1] ELSE <<>>

\* url.QueryEscape of one character.
QueryEscapeChar(c) ==
    CASE c = ":"  -> <<"%", "3", "A">>
      [] c = "="  -> <<"%", "3", "D">>
      [] c = "@"  -> <<"%", "4", "0">>
      [] c = "\\" -> <<"%", "5", "C">>
      [] c = "/"  -> <<"%", "2", "F">>
      [] c = "?"  -> <<"%", "3", "F">>
      [] c = "%"  -> <<"%", "2", "5">>
      [] c = "&"  -> <<"%", "2", "6">>
      [] c = "\"" -> <<"%", "2", "2">>
      [] c = RuneError -> <<"%", "E", "F", "%", "B", "F", "%", "B", "D">>
      [] c = BadByte   -> <<"%", "F", "F">>
      [] OTHER    -> <<c>>

\* url.QueryEscape
QueryEscape(s) == Concat([i \in 1..Len(s) |-> QueryEscapeChar(s[i])])

\* url.Values.Encode: "key=value" pairs joined by '&', the keys sorted, the
\* values of one key in the order they were added.
ValuesEncode(m) ==
    LET keys == SortStrings(DOMAIN m)
        pairs(k) == [j \in 1..Len(m[k]) |->
                        QueryEscape(k) \o <<"=">> \o QueryEscape(m[k][j])]
    IN  Join(Concat([i \in 1..Len(keys) |-> pairs(keys[i])]), <<"&">>)

----------------------------------------------------------------------------
(* JSON *)

\* json.Unmarshal(val, &rawMessage) succeeds: over the characters of the
\* model the well-formed JSON texts are the numbers without a leading zero.
ValidJSON(val) ==
    /\ Len(val) > 0
    /\ \A i \in 1..Len(val) : IsDigit(val[i])
    /\ (val[1] = "0" => Len(val) = 1)

JSONEscapeChar(c) ==
    CASE c = "\\" -> <<"\\", "\\">>
      [] c = "\"" -> <<"\\", "\"">>
      [] c = "&"  -> <<"\\", "u", "0", "0", "2", "6">>
      [] c = BadByte -> <<"\\", "u", "f", "f", "f", "d">>
      [] OTHER    -> <<c>>

\* A Go string marshalled as a JSON string.
JSONString(s) ==
    <<"\"">> \o Concat([i \in 1..Len(s) |-> JSONEscapeChar(s[i])]) \o <<"\"">>

\* One value of jsonObj marshalled: a string is quoted, a raw message is
\* emitted as it is.
JSONValue(v) == IF v.kind = "string" THEN JSONString(v.val) ELSE v.val

\* json.Marshal(map[string]interface{}): the keys sorted.
JSONMarshal(obj) ==
    LET keys == SortStrings(DOMAIN obj)
    IN  <<"{">>
        \o Join([i \in 1..Len(keys) |->
                    JSONString(keys[i]) \o <<":">> \o JSONValue(obj[keys[i]])],
                <<",">>)
        \o <<"}">>

----------------------------------------------------------------------------
(* The environment: the files request items may name, and standard input *)

\* The one readable file, "f", holds the text 1.
ReadableFiles == { <<"f">> }
FileData(path) == <<"1">>

\* ioutil.ReadFile
ReadFile(path) ==
    IF path \in ReadableFiles
      THEN [err |-> <<>>, data |-> FileData(path)]
      ELSE [err |-> <<"open: no such file or directory">>, data |-> <<>>]

\* What standard input holds.
StdinData == <<"s">>

----------------------------------------------------------------------------
(* URLs *)

NoURL == [Scheme |-> <<>>, Host |-> <<>>, Path |-> <<>>, RawQuery |-> <<>>]

\* The shorthand for localhost and the default scheme of parseArgs.
urlString(arg) ==
    LET s1 == IF HasPrefix(arg, <<":">>)
                THEN IF HasPrefix(arg, <<":", "/">>)
                       THEN <<"h", "t", "t", "p", ":", "/", "/", "l", "o", "c", "a", "l", "h", "o", "s", "t">> \o SliceFrom(arg, 2)
                       ELSE <<"h", "t", "t", "p", ":", "/", "/", "l", "o", "c", "a", "l", "h", "o", "s", "t">> \o arg
                ELSE arg
    IN  IF ~HasPrefix(s1, <<"h", "t", "t", "p", ":">>) /\ ~HasPrefix(s1, <<"h", "t", "t", "p", "s", ":">>)
          THEN <<"h", "t", "t", "p", ":", "/", "/">> \o s1
          ELSE s1

IsHex(c) == IsDigit(c) \/ c \in {"a", "b", "c", "d", "e", "f", "A", "B", "C", "D", "E", "F"}

\* url.Parse of "scheme://host/path?query": it fails on a '%' that starts
\* no escape.
urlParse(s) ==
    LET colon   == IndexIn(s, ":")
        scheme  == SubSeq(s, 1, colon - 1)
        afterS  == SliceFrom(s, colon + 1)
        hasAuth == HasPrefix(afterS, <<"/", "/">>)
        rest    == IF hasAuth THEN SliceFrom(afterS, 3) ELSE afterS
        q       == IndexIn(rest, "?")
        noQuery == IF q = 0 THEN rest ELSE SubSeq(rest, 1, q - 1)
        query   == IF q = 0 THEN <<>> ELSE SliceFrom(rest, q + 1)
        slash   == IndexIn(noQuery, "/")
        host    == IF ~hasAuth THEN <<>>
                   ELSE IF slash = 0 THEN noQuery
                   ELSE SubSeq(noQuery, 1, slash - 1)
        path    == IF ~hasAuth THEN noQuery
                   ELSE IF slash = 0 THEN <<>>
                   ELSE SliceFrom(noQuery, slash)
        badEsc  == \E i \in 1..Len(noQuery) :
                      /\ noQuery[i] = "%"
                      /\ \/ i + 2 > Len(noQuery)
                         \/ ~IsHex(noQuery[i + 1])
                         \/ ~IsHex(noQuery[i + 2])
    IN  [ok  |-> ~badEsc,
         url |-> [Scheme |-> scheme, Host |-> host, Path |-> path,
                  RawQuery |-> query]]

----------------------------------------------------------------------------
(* Errors and the values main0 works on *)

NoError == <<>>

errUsage == <<"bad usage">>

ErrInvalidURL     == <<"invalid URL">>
ErrCannotParse(e) == <<"cannot parse", e>>
ErrNotRecognized  == <<"key value type separator not yet recognized">>
ErrNeedJSON  == <<"cannot specify non-string key unless --json is specified">>
ErrInvalidJSON    == <<"invalid JSON in key">>
ErrStdinAndBody   ==
    <<"cannot read body from stdin when form or JSON body is specified">>
ErrNewClient      == <<"cannot make HTTP client">>
ErrReadStdin      == <<"error reading stdin">>
ErrDoRequest      == <<"cannot do HTTP request">>

GET  == <<"G", "E", "T">>
HEAD == <<"H", "E", "A", "D">>
POST == <<"P", "O", "S", "T">>

ContentType   == <<"C", "o", "n", "t", "e", "n", "t", "-", "T", "y", "p", "e">>
Authorization == <<"A", "u", "t", "h", "o", "r", "i", "z", "a", "t", "i", "o", "n">>

ApplicationJSON == <<"a", "p", "p", "l", "i", "c", "a", "t", "i", "o", "n", "/", "j", "s", "o", "n">>
ApplicationForm == <<"a", "p", "p", "l", "i", "c", "a", "t", "i", "o", "n", "/", "x", "-", "w", "w", "w", "-", "f", "o", "r", "m", "-", "u", "r", "l", "e", "n", "c", "o", "d", "e", "d">>

\* The request before newRequest made it.
NoRequest ==
    [url |-> NoURL, method |-> <<>>, header |-> EmptyMap,
     urlValues |-> EmptyMap, form |-> EmptyMap, jsonObj |-> EmptyMap]

\* The http.Request before request.do made it.
NoHTTPRequest ==
    [URL |-> NoURL, Method |-> <<>>, Header |-> EmptyMap, Body |-> <<>>,
     ContentLength |-> 0]

\* No response: the client has not answered.
\* Body is what reading resp.Body yields, and BodyErr says whether the
\* stream then ends in an error.
NoResponse ==
    [StatusCode |-> 0, Status |-> <<>>, Header |-> EmptyMap, Body |-> <<>>,
     BodyErr |-> FALSE]

\* "Basic " + base64 of the credentials, kept as the pair.
BasicAuthValue(cred) == <<"B", "a", "s", "i", "c", " ">> \o <<"base64">> \o cred

----------------------------------------------------------------------------
(* parseArgs *)

\* isMethod: every rune is an ASCII letter (so the empty string passes).
isMethod(s) == \A i \in 1..Len(s) : IsLower(s[i]) \/ IsUpper(s[i])

\* Only '=' counts as sending data.
isDataSendingSepOnlyEq(sep) == sep = <<"=">>

\* isDataSendingSep: the separator less a trailing '@' is ':=', '=' or "".
isDataSendingSep(sep) ==
    LET trimmed == IF Len(sep) > 0 /\ sep[Len(sep)] = "@"
                     THEN SubSeq(sep, 1, Len(sep) - 1)
                     ELSE sep
    IN  trimmed = <<":", "=">> \/ trimmed = <<"=">> \/ trimmed = <<>>

\* The method set to POST by a data item even when one was given.
inferMethodAlways(method, sep) ==
    IF isDataSendingSep(sep) THEN POST ELSE method

\* `if isDataSendingSep(kv.sep) && p.method == "" { p.method = "POST" }`
inferMethod(method, sep) ==
    IF isDataSendingSep(sep) /\ method = <<>> THEN POST ELSE method

----------------------------------------------------------------------------
(* addKeyVal and the functions of sepFuncs; each returns the error and the *)
(* request it leaves behind                                                *)

Applied(r)  == [err |-> NoError, req |-> r]
Refused(e, r) == [err |-> e, req |-> r]

\* key:val
httpHeader(r, pp, key, val) ==
    Applied([r EXCEPT !.header = HeaderAdd(r.header, key, val)])

\* key==val
urlParam(r, pp, key, val) ==
    Applied([r EXCEPT !.urlValues = ValuesAdd(r.urlValues, key, val)])

\* key=val put in the form whatever the mode.
dataStringAlwaysForm(r, pp, key, val) ==
    Applied([r EXCEPT !.form = ValuesAdd(r.form, key, val)])

\* key=val that leaves alone a JSON field that is there already.
dataStringKeepFirst(r, pp, key, val) ==
    IF pp.json
      THEN Applied([r EXCEPT !.jsonObj =
                [k \in DOMAIN r.jsonObj \cup {key} |->
                    IF k \in DOMAIN r.jsonObj THEN r.jsonObj[k]
                    ELSE [kind |-> "string", val |-> val]]])
      ELSE Applied([r EXCEPT !.form = ValuesAdd(r.form, key, val)])

\* key=val
dataString(r, pp, key, val) ==
    IF pp.json
      THEN Applied([r EXCEPT !.jsonObj =
                [k \in DOMAIN r.jsonObj \cup {key} |->
                    IF k = key THEN [kind |-> "string", val |-> val]
                    ELSE r.jsonObj[k]]])
      ELSE Applied([r EXCEPT !.form = ValuesAdd(r.form, key, val)])

\* key=@val with the path taken for the value.
dataStringFilePath(r, pp, key, val) ==
    LET f == ReadFile(val)
    IN  IF f.err # NoError THEN Refused(f.err, r)
        ELSE dataString(r, pp, key, val)

\* key=@val
dataStringFile(r, pp, key, val) ==
    LET f == ReadFile(val)
    IN  IF f.err # NoError THEN Refused(f.err, r)
        ELSE dataString(r, pp, key, f.data)

\* key:=val stored without looking at the value.
jsonOtherUnchecked(r, pp, key, val) ==
    IF ~pp.json THEN Refused(ErrNeedJSON, r)
    ELSE Applied([r EXCEPT !.jsonObj =
                [k \in DOMAIN r.jsonObj \cup {key} |->
                    IF k = key THEN [kind |-> "raw", val |-> val]
                    ELSE r.jsonObj[k]]])

\* key:=val stored without asking for --json.
jsonOtherAnyMode(r, pp, key, val) ==
    IF ~ValidJSON(val) THEN Refused(ErrInvalidJSON, r)
    ELSE Applied([r EXCEPT !.jsonObj =
                [k \in DOMAIN r.jsonObj \cup {key} |->
                    IF k = key THEN [kind |-> "raw", val |-> val]
                    ELSE r.jsonObj[k]]])

\* key:=val
jsonOther(r, pp, key, val) ==
    IF ~pp.json THEN Refused(ErrNeedJSON, r)
    ELSE IF ~ValidJSON(val) THEN Refused(ErrInvalidJSON, r)
    ELSE Applied([r EXCEPT !.jsonObj =
                [k \in DOMAIN r.jsonObj \cup {key} |->
                    IF k = key THEN [kind |-> "raw", val |-> val]
                    ELSE r.jsonObj[k]]])

\* key:=@file
jsonOtherFile(r, pp, key, val) ==
    LET f == ReadFile(val)
    IN  IF f.err # NoError THEN Refused(f.err, r)
        ELSE jsonOther(r, pp, key, f.data)

\* addKeyVal with '@' taken for a data field from a file.
addKeyValFileField(r, pp, item) ==
    CASE item.sep = <<":">>           -> httpHeader(r, pp, item.key, item.val)
      [] item.sep = <<"=", "=">>      -> urlParam(r, pp, item.key, item.val)
      [] item.sep = <<"=">>           -> dataString(r, pp, item.key, item.val)
      [] item.sep = <<"=", "@">>      -> dataStringFile(r, pp, item.key, item.val)
      [] item.sep = <<":", "=">>      -> jsonOther(r, pp, item.key, item.val)
      [] item.sep = <<":", "=", "@">> -> jsonOtherFile(r, pp, item.key, item.val)
      [] item.sep = <<"@">>           -> dataStringFile(r, pp, item.key, item.val)
      [] OTHER                        -> Refused(ErrNotRecognized, r)

\* addKeyVal: the function sepFuncs holds for the separator, and an error
\* for a separator it does not hold.
addKeyVal(r, pp, item) ==
    CASE item.sep = <<":">>           -> httpHeader(r, pp, item.key, item.val)
      [] item.sep = <<"=", "=">>      -> urlParam(r, pp, item.key, item.val)
      [] item.sep = <<"=">>           -> dataString(r, pp, item.key, item.val)
      [] item.sep = <<"=", "@">>      -> dataStringFile(r, pp, item.key, item.val)
      [] item.sep = <<":", "=">>      -> jsonOther(r, pp, item.key, item.val)
      [] item.sep = <<":", "=", "@">> -> jsonOtherFile(r, pp, item.key, item.val)
      [] OTHER                        -> Refused(ErrNotRecognized, r)

----------------------------------------------------------------------------
(* SpecParse: parseKeyVal applied to every token of at most MaxLen pieces *)

Alphabet == {"k", ":", "=", "@", "\\", BadByte}

Tokens == UNION {[1..n -> Alphabet] : n \in 0..MaxLen}

NoKeyVal == keyValError("")

NoParams ==
    [json |-> FALSE, useStdin |-> FALSE, basicAuth |-> <<>>,
     headers |-> FALSE, body |-> TRUE, raw |-> FALSE, checkStatus |-> FALSE,
     method |-> <<>>, url |-> NoURL, keyVals |-> <<>>]

IdleMain ==
    /\ argv = <<>>
    /\ args = <<>>
    /\ p = NoParams
    /\ req = NoRequest
    /\ httpReq = NoHTTPRequest
    /\ idx = 0
    /\ err = NoError
    /\ exitCode = -1
    /\ stdinRead = FALSE
    /\ resp = NoResponse
    /\ stdout = <<>>
    /\ stderr = <<>>
    /\ calls = 0
    /\ filesRead = <<>>
    /\ pc = "idle"

InitParse ==
    /\ tok \in Tokens
    /\ kv = NoKeyVal
    /\ ppc = "call"
    /\ IdleMain

CallParseKeyVal ==
    /\ ppc = "call"
    /\ kv' = parseKeyVal(tok)
    /\ ppc' = "return"
    /\ UNCHANGED <<tok, mainVars>>

NextParse == CallParseKeyVal

SpecParse == InitParse /\ [][NextParse]_vars

----------------------------------------------------------------------------
(* Spec: one invocation of main0 *)

\* The words a command line is made of.
MethodWords == { <<"p", "U", "t">>, <<>> }
GoodURLs    == { <<"f", ".", "c">>, <<"f", ".", "c", "?", "z", "=", "1">> }
BadURLs     == { <<"%">> }

ItemPool ==
    { <<"h", ":", "v">>,              \* header
      <<"c", "o", "n", "t", "e", "n", "t", "-", "t", "y", "p", "e", ":", "t">>,   \* header naming Content-Type
      <<"q", "=", "=", "v">>,             \* URL parameter
      <<"a", "=", "1">>,              \* data fields
      <<"a", "=", "2">>,
      <<"b", "=", "1">>,
      <<"a", ":", "=", "1">>,             \* raw JSON value
      <<"a", ":", "=", "x">>,             \* raw JSON value that is no JSON
      <<"a", "=", "@", "f">>,             \* data field from a file
      <<"a", "=", "@", "n">>,             \* data field from a file that is not there
      <<"a", ":", "=", "@", "f">>,            \* raw JSON file
      <<"a", "@", "f">>,              \* form file field
      <<":", "x">>,               \* empty key
      <<"k">> }               \* no separator

Items == UNION {[1..n -> ItemPool] : n \in 0..MaxItems}

\* Command lines: nothing, a method alone, a URL that does not parse, a
\* method and a URL, and [METHOD] URL followed by request items.
CommandLines ==
    { <<>> }
    \cup { <<m>> : m \in MethodWords }
    \cup { <<u>> : u \in BadURLs }
    \cup { <<m, u>> : <<m, u>> \in MethodWords \X (GoodURLs \cup BadURLs) }
    \cup { <<u>> \o items : <<u, items>> \in GoodURLs \X Items }
    \cup { <<m, u>> \o items :
              <<m, u, items>> \in {<<"p", "U", "t">>} \X {<<"f", ".", "c">>} \X Items }

BasicAuths == { <<>>, <<"u", ":", "p">> }

Init ==
    /\ tok = <<>>
    /\ kv = NoKeyVal
    /\ ppc = "idle"
    /\ argv \in CommandLines
    /\ args = argv
    /\ \E json \in BOOLEAN, useStdin \in BOOLEAN, basicAuth \in BasicAuths :
         p = [NoParams EXCEPT !.json = json, !.useStdin = useStdin,
                              !.basicAuth = basicAuth]
    /\ req = NoRequest
    /\ httpReq = NoHTTPRequest
    /\ idx = 0
    /\ err = NoError
    /\ exitCode = -1
    /\ stdinRead = FALSE
    /\ resp = NoResponse
    /\ stdout = <<>>
    /\ stderr = <<>>
    /\ calls = 0
    /\ filesRead = <<>>
    /\ pc = "parseArgs"

\* newRequest returned err: main0 prints it and returns exitError{2}.
UsageFailure(e) ==
    /\ err' = e
    /\ exitCode' = 2
    /\ pc' = "exit"

\* parseArgs after the flags: the method, if the first argument is one, and
\* the URL.
ParseArgsHead ==
    /\ pc = "parseArgs"
    /\ IF Len(args) = 0
         THEN UsageFailure(errUsage) /\ UNCHANGED <<args, p, idx>>
       ELSE
         LET hasMethod == isMethod(args[1])
             method    == IF hasMethod THEN ToUpper(args[1]) ELSE <<>>
             rest      == IF hasMethod THEN Tail(args) ELSE args
         IN  IF Len(rest) = 0
               THEN UsageFailure(errUsage) /\ UNCHANGED <<args, p, idx>>
             ELSE
               LET u == urlParse(urlString(rest[1]))
               IN  IF ~u.ok
                     THEN UsageFailure(ErrInvalidURL) /\ UNCHANGED <<args, p, idx>>
                   ELSE
                     /\ p' = [p EXCEPT
                                !.method = method,
                                !.url = IF u.url.Host = <<>>
                                          THEN [u.url EXCEPT !.Host = <<"l", "o", "c", "a", "l", "h", "o", "s", "t">>]
                                          ELSE u.url]
                     /\ args' = Tail(rest)
                     /\ idx' = 1
                     /\ pc' = "parseKeyVals"
                     /\ UNCHANGED <<err, exitCode>>
    /\ UNCHANGED <<parseVars, outVars, envVars, argv, req, httpReq, stdinRead>>

\* Only an empty key stops parseArgs.
parseFailsOnEmptyKey(item) == item.err = ErrEmptyKey

\* `kv, err := parseKeyVal(arg); if err != nil`
parseFails(item) == item.err # ""

\* One turn of `for i, arg := range args` in parseArgs.
ParseArgsItem ==
    /\ pc = "parseKeyVals"
    /\ idx <= Len(args)
    /\ LET item == parseKeyVal(args[idx])
       IN  IF parseFails(item)
             THEN UsageFailure(ErrCannotParse(item.err)) /\ UNCHANGED <<p, idx>>
           ELSE
             /\ p' = [p EXCEPT !.method = inferMethod(p.method, item.sep),
                               !.keyVals = Append(@, item)]
             /\ idx' = idx + 1
             /\ UNCHANGED <<err, exitCode, pc>>
    /\ UNCHANGED <<parseVars, outVars, envVars, argv, args, req, httpReq, stdinRead>>

\* The end of parseArgs, and newRequest up to its loop: the method defaults
\* to GET and the request is made with empty maps.
ParseArgsReturn ==
    /\ pc = "parseKeyVals"
    /\ idx > Len(args)
    /\ LET method == IF p.method = <<>> THEN GET ELSE p.method
       IN  /\ p' = [p EXCEPT !.method = method]
           /\ req' = [url |-> p.url, method |-> method, header |-> EmptyMap,
                      urlValues |-> EmptyMap, form |-> EmptyMap,
                      jsonObj |-> EmptyMap]
    /\ idx' = 1
    /\ pc' = "addKeyVals"
    /\ UNCHANGED <<parseVars, outVars, envVars, argv, args, httpReq, err, exitCode, stdinRead>>

\* The file dataStringFile or jsonOtherFile reads for the item.
filesOf(item) ==
    IF item.sep \in { <<"=", "@">>, <<":", "=", "@">> } THEN <<item.val>> ELSE <<>>

\* One turn of `for _, kv := range p.keyVals` in newRequest.
AddKeyVal ==
    /\ pc = "addKeyVals"
    /\ idx <= Len(p.keyVals)
    /\ LET res == addKeyVal(req, p, p.keyVals[idx])
       IN  /\ req' = res.req
           /\ filesRead' = filesRead \o filesOf(p.keyVals[idx])
           /\ IF res.err # NoError
                THEN UsageFailure(res.err) /\ UNCHANGED idx
                ELSE idx' = idx + 1 /\ UNCHANGED <<err, exitCode, pc>>
    /\ UNCHANGED <<parseVars, outVars, calls, argv, args, p, httpReq, stdinRead>>

\* Only a form body excludes stdin.
stdinConflictFormOnly(pp, r) == pp.useStdin /\ DOMAIN r.form # {}

\* `if p.useStdin && (len(req.form) > 0 || len(req.jsonObj) > 0)`
stdinConflict(pp, r) ==
    pp.useStdin /\ (DOMAIN r.form # {} \/ DOMAIN r.jsonObj # {})

\* The JSON Content-Type set only when there are JSON fields.
needsJSONContentTypeWithFields(pp, r, h) ==
    pp.json /\ DOMAIN r.jsonObj # {} /\ HeaderGet(h, ContentType) = <<>>

\* `if p.json && req.header.Get("Content-Type") == ""`
needsJSONContentType(pp, r, h) ==
    pp.json /\ HeaderGet(h, ContentType) = <<>>

\* The end of newRequest: stdin and a form or JSON body exclude each other,
\* then the Authorization and the JSON Content-Type headers.
NewRequestReturn ==
    /\ pc = "addKeyVals"
    /\ idx > Len(p.keyVals)
    /\ IF stdinConflict(p, req)
         THEN UsageFailure(ErrStdinAndBody) /\ UNCHANGED req
       ELSE
         LET h1 == IF p.basicAuth # <<>>
                     THEN HeaderSet(req.header, Authorization,
                                    BasicAuthValue(p.basicAuth))
                     ELSE req.header
             h2 == IF needsJSONContentType(p, req, h1)
                     THEN HeaderSet(h1, ContentType, ApplicationJSON)
                     ELSE h1
         IN  /\ req' = [req EXCEPT !.header = h2]
             /\ pc' = "newClient"
             /\ UNCHANGED <<err, exitCode>>
    /\ UNCHANGED <<parseVars, outVars, envVars, argv, args, p, httpReq, idx, stdinRead>>

\* How newClient can end: with a client, or with an error from the agents
\* file or the cookie jar.
NewClientOutcomes == {"client", "client error"}

\* newClient, called by main0; on an error fatalf exits with code 1.
NewClient(outcome) ==
    /\ pc = "newClient"
    /\ IF outcome = "client error"
         THEN err' = ErrNewClient /\ exitCode' = 1 /\ pc' = "exit"
         ELSE pc' = "do" /\ UNCHANGED <<err, exitCode>>
    /\ UNCHANGED <<parseVars, outVars, envVars, argv, args, p, req, httpReq, idx, stdinRead>>

\* How request.do can end: the client answers, reading stdin fails, or the
\* client fails.
DoOutcomes == {"response", "stdin error", "transport error"}

\* The answers of the server main0 is run against.
ServerResponses ==
    { [StatusCode |-> 200, Status |-> <<"2", "0", "0", " ", "O", "K">>,
       Header |-> [k \in {ContentType} |-> <<ApplicationJSON>>],
       Body |-> <<"1">>, BodyErr |-> FALSE],
      [StatusCode |-> 404, Status |-> <<"4", "0", "4", " ", "N", "o", "t", " ", "F", "o", "u", "n", "d">>,
       Header |-> EmptyMap, Body |-> <<"x">>, BodyErr |-> FALSE],
      [StatusCode |-> 200, Status |-> <<"2", "0", "0", " ", "O", "K">>,
       Header |-> EmptyMap, Body |-> <<"x">>, BodyErr |-> TRUE] }

\* The encoded parameters take the place of the query the URL had.
mergeQueryReplacing(rawQuery, urlValues) ==
    IF DOMAIN urlValues # {} THEN ValuesEncode(urlValues) ELSE rawQuery

\* `if len(req.urlValues) > 0 { ...RawQuery += "&" ... += Encode() }`
mergeQuery(rawQuery, urlValues) ==
    IF DOMAIN urlValues # {}
      THEN (IF rawQuery # <<>> THEN rawQuery \o <<"&">> ELSE <<>>)
           \o ValuesEncode(urlValues)
      ELSE rawQuery

\* The JSON object tried before the form.
bodyCaseJSONFirst(r, stdin) ==
    IF DOMAIN r.jsonObj # {} THEN "json"
    ELSE IF DOMAIN r.form # {} THEN "form"
    ELSE IF r.method # GET /\ r.method # HEAD /\ stdin THEN "stdin"
    ELSE "none"

\* The case the switch of request.do takes.
bodyCase(r, stdin) ==
    IF DOMAIN r.form # {} THEN "form"
    ELSE IF DOMAIN r.jsonObj # {} THEN "json"
    ELSE IF r.method # GET /\ r.method # HEAD /\ stdin THEN "stdin"
    ELSE "none"

\* A failed request is tried again.
afterDoRetrying(outcome) ==
    IF outcome = "response" THEN "showResponse" ELSE "do"

\* Where main0 goes after request.do: to showResponse with the response,
\* and out with an error.
afterDo(outcome) ==
    IF outcome = "response" THEN "showResponse" ELSE "exit"

\* request.do, called by main0 with stdin when --stdin was given; a failure
\* makes main exit with code 1.
Do(outcome) ==
    /\ pc = "do"
    /\ LET url == [req.url EXCEPT
                      !.RawQuery = mergeQuery(req.url.RawQuery, req.urlValues)]
           case == bodyCase(req, p.useStdin)
           header == IF case = "form"
                       THEN HeaderSet(req.header, ContentType, ApplicationForm)
                       ELSE req.header
           body == CASE case = "form"  -> ValuesEncode(req.form)
                     [] case = "json"  -> JSONMarshal(req.jsonObj)
                     [] case = "stdin" -> StdinData
                     [] OTHER          -> <<>>
       IN  /\ outcome = "stdin error" => case = "stdin"
           /\ stdinRead' = (case = "stdin")
           /\ req' = [req EXCEPT !.url = url, !.header = header]
           /\ IF outcome = "stdin error"
                THEN /\ httpReq' = [NoHTTPRequest EXCEPT
                                      !.URL = url, !.Method = req.method,
                                      !.Header = header]
                     /\ err' = ErrReadStdin
                     /\ exitCode' = 1
                     /\ pc' = "exit"
                     /\ UNCHANGED <<resp, calls>>
                ELSE /\ httpReq' = [URL |-> url, Method |-> req.method,
                                    Header |-> header, Body |-> body,
                                    ContentLength |-> Len(body)]
                     /\ calls' = calls + 1
                     /\ pc' = afterDo(outcome)
                     /\ IF outcome = "transport error"
                          THEN /\ err' = ErrDoRequest
                               /\ exitCode' = 1
                               /\ UNCHANGED resp
                          ELSE /\ resp' \in ServerResponses
                               /\ UNCHANGED <<err, exitCode>>
    /\ UNCHANGED <<parseVars, argv, args, p, idx, stdout, stderr, filesRead>>

----------------------------------------------------------------------------
(* showResponse *)

IsSpace(c) == c \in {" ", "\t", "\n", "\r"}

RECURSIVE TrimLeft(_)
TrimLeft(s) ==
    IF s # <<>> /\ IsSpace(s[1]) THEN TrimLeft(Tail(s)) ELSE s

RECURSIVE TrimRight(_)
TrimRight(s) ==
    IF s # <<>> /\ IsSpace(s[Len(s)])
      THEN TrimRight(SubSeq(s, 1, Len(s) - 1))
      ELSE s

\* strings.TrimSpace
TrimSpace(s) == TrimRight(TrimLeft(s))

\* strings.ToLower
ToLower(s) == [i \in 1..Len(s) |-> ToLowerChar(s[i])]

\* The length of the longest prefix of s made of token characters.
RECURSIVE TokenLen(_)
TokenLen(s) ==
    IF s # <<>> /\ IsTokenChar(s[1]) THEN 1 + TokenLen(Tail(s)) ELSE 0

\* checkMediaTypeDisposition: a token, or token "/" token.
checkMediaType(s) ==
    LET n    == TokenLen(s)
        rest == SliceFrom(s, n + 1)
    IN  /\ n > 0
        /\ \/ rest = <<>>
           \/ /\ rest[1] = "/"
              /\ TokenLen(Tail(rest)) > 0
              /\ TokenLen(Tail(rest)) = Len(rest) - 1

\* The loop of mime.ParseMediaType over the parameters: each is
\* ";" token "=" token, and a lone trailing ";" is ignored.
RECURSIVE mediaParamsOK(_)
mediaParamsOK(v) ==
    LET t == TrimLeft(v)
    IN  IF t = <<>> THEN TRUE
        ELSE IF t[1] # ";" THEN FALSE
        ELSE
          LET a == TrimLeft(Tail(t))
              n == TokenLen(a)
              b == SliceFrom(a, n + 2)
              m == TokenLen(b)
          IN  IF n = 0 \/ n + 1 > Len(a) \/ a[n + 1] # "=" \/ m = 0
                THEN TrimSpace(t) = <<";">>
                ELSE mediaParamsOK(SliceFrom(b, m + 1))

\* mime.ParseMediaType: the media type is what precedes the first ';', in
\* lower case and without the space around it.
ParseMediaType(v) ==
    LET semi      == IndexIn(v, ";")
        base      == IF semi = 0 THEN v ELSE SubSeq(v, 1, semi - 1)
        mediatype == TrimSpace(ToLower(base))
        params    == IF semi = 0 THEN <<>> ELSE SliceFrom(v, semi)
    IN  IF checkMediaType(mediatype) /\ mediaParamsOK(params)
          THEN [ok |-> TRUE, mediaType |-> mediatype]
          ELSE [ok |-> FALSE, mediaType |-> <<>>]

\* A prefix of the media type is enough.
isJSONResponseByPrefix(ctype) ==
    LET m == ParseMediaType(ctype)
    IN  ctype # <<>> /\ m.ok /\ HasPrefix(m.mediaType, ApplicationJSON)

\* isJSONResp of showResponse.
isJSONResponse(ctype) ==
    LET m == ParseMediaType(ctype)
    IN  ctype # <<>> /\ m.ok /\ m.mediaType = ApplicationJSON

\* The body is indented whatever --raw says.
copiesBodyIgnoringRaw(isJSONResp, raw) == ~isJSONResp

\* `if !isJSONResp || p.raw`: the body is copied as it is.
copiesBody(isJSONResp, raw) == ~isJSONResp \/ raw

\* The JSON texts of the model: a number, and the object {"a":N}.
IsJSONObjectText(s) ==
    /\ Len(s) > 6
    /\ SubSeq(s, 1, 5) = <<"{", "\"", "a", "\"", ":">>
    /\ s[Len(s)] = "}"
    /\ ValidJSON(SubSeq(s, 6, Len(s) - 1))

IsJSONText(s) == ValidJSON(s) \/ IsJSONObjectText(s)

\* A JSON text indented with tabs, as rjson writes it: the keys of an
\* object unquoted, one member on a line.
indentText(s) ==
    IF IsJSONObjectText(s)
      THEN <<"{", "\n", "\t", "a", ":", " ">>
           \o SubSeq(s, 6, Len(s) - 1) \o <<"\n", "}">>
      ELSE s

\* rjson.Indent(&indented, data, "", "\t"): the space before the value is
\* dropped; keepTrailing says whether the space after it is copied.
rjsonIndent(data, keepTrailing) ==
    LET text == TrimSpace(data)
        lead == TrimLeft(data)
        trailing == SliceFrom(lead, Len(text) + 1)
    IN  IF ~IsJSONText(text) THEN [ok |-> FALSE, out |-> <<>>]
        ELSE [ok |-> TRUE,
              out |-> indentText(text)
                      \o (IF keepTrailing THEN trailing ELSE <<>>)]

\* A newline appended whatever the data ends with.
withFinalNewlineAlways(data) == Append(data, "\n")

\* `if len(data) > 0 && data[len(data)-1] != '\n' { data = append(data, '\n') }`
withFinalNewline(data) ==
    IF Len(data) > 0 /\ data[Len(data)] # "\n" THEN Append(data, "\n") ELSE data

WarnStatus      == "warning: HTTP response code"
WarnContentType == "warning: invalid content type in response"
WarnPrettyPrint == "warning: cannot pretty print JSON response"

ErrReadBody == <<"failed to read response body">>

\* An empty read taken for a failed one.
readAllFailsOnEmpty(r) == r.BodyErr \/ r.Body = <<>>

\* `data, err := ioutil.ReadAll(resp.Body); if err != nil`
readAllFails(r) == r.BodyErr

\* The keys as they come, here from the last to the first.
printHeadersUnsorted(h) ==
    LET keys == SortStrings(DOMAIN h)
        n    == Len(keys)
    IN  Concat([i \in 1..n |->
                  [j \in 1..Len(h[keys[n + 1 - i]]) |->
                      keys[n + 1 - i] \o <<":", " ">> \o h[keys[n + 1 - i]][j]
                      \o <<"\n">>]])

\* printHeaders: one line for each value, the keys sorted.
printHeaders(h) ==
    LET keys == SortStrings(DOMAIN h)
    IN  Concat([i \in 1..Len(keys) |->
                  [j \in 1..Len(h[keys[i]]) |->
                      keys[i] \o <<":", " ">> \o h[keys[i]][j] \o <<"\n">>]])

\* showResponse, called by main0, which exits with code 1 on its error.
\* stdout and stderr hold one element for each write.
ShowResponse(keepTrailing) ==
    /\ pc = "showResponse"
    /\ LET warn1 == IF p.checkStatus /\ resp.StatusCode \div 100 # 2
                      THEN <<WarnStatus>> ELSE <<>>
           head  == IF p.headers
                      THEN <<<<"H", "T", "T", "P", "/", "1", ".", "1", " ">> \o resp.Status \o <<"\n">>>>
                           \o printHeaders(resp.Header) \o <<<<"\n">>>>
                      ELSE <<>>
           ctype == HeaderGet(resp.Header, ContentType)
           warn2 == IF ctype # <<>> /\ ~ParseMediaType(ctype).ok
                      THEN <<WarnContentType>> ELSE <<>>
           ind   == rjsonIndent(resp.Body, keepTrailing)
       IN  IF ~p.body
             THEN /\ ~keepTrailing
                  /\ stdout' = stdout \o head
                  /\ stderr' = stderr \o warn1
                  /\ pc' = "checkStatus"
                  /\ UNCHANGED <<err, exitCode>>
           ELSE IF copiesBody(isJSONResponse(ctype), p.raw)
             THEN /\ ~keepTrailing
                  /\ stdout' = stdout \o head \o <<resp.Body>>
                  /\ stderr' = stderr \o warn1 \o warn2
                  /\ pc' = "checkStatus"
                  /\ UNCHANGED <<err, exitCode>>
           ELSE IF readAllFails(resp)
             THEN /\ ~keepTrailing
                  /\ stdout' = stdout \o head
                  /\ stderr' = stderr \o warn1 \o warn2
                  /\ err' = ErrReadBody
                  /\ exitCode' = 1
                  /\ pc' = "exit"
           ELSE IF ~ind.ok
             THEN /\ ~keepTrailing
                  /\ stdout' = stdout \o head \o <<resp.Body>>
                  /\ stderr' = stderr \o warn1 \o warn2 \o <<WarnPrettyPrint>>
                  /\ pc' = "checkStatus"
                  /\ UNCHANGED <<err, exitCode>>
           ELSE   /\ stdout' = stdout \o head \o <<withFinalNewline(ind.out)>>
                  /\ stderr' = stderr \o warn1 \o warn2
                  /\ pc' = "checkStatus"
                  /\ UNCHANGED <<err, exitCode>>
    /\ UNCHANGED <<parseVars, envVars, argv, args, p, req, httpReq, idx,
                   stdinRead, resp>>

\* The status class is the exit code whatever --check-status says.
statusExitAlways(pp, r) ==
    IF r.StatusCode \div 100 # 2 THEN r.StatusCode \div 100 ELSE 0

\* `statusClass := resp.StatusCode / 100` and the exitError main0 returns
\* for it.
statusExit(pp, r) ==
    LET statusClass == r.StatusCode \div 100
    IN  IF pp.checkStatus /\ statusClass # 2 THEN statusClass ELSE 0

\* The end of main0: with --check-status a response that is not 2xx makes
\* the first digit of its status the exit code.
Main0Return ==
    /\ pc = "checkStatus"
    /\ exitCode' = statusExit(p, resp)
    /\ pc' = "exit"
    /\ UNCHANGED <<parseVars, outVars, envVars, argv, args, p, req, httpReq, idx, err,
                   stdinRead>>

Next ==
    \/ ParseArgsHead
    \/ ParseArgsItem
    \/ ParseArgsReturn
    \/ AddKeyVal
    \/ NewRequestReturn
    \/ \E outcome \in NewClientOutcomes : NewClient(outcome)
    \/ \E outcome \in DoOutcomes : Do(outcome)
    \/ \E keepTrailing \in BOOLEAN : ShowResponse(keepTrailing)
    \/ Main0Return

Spec == Init /\ [][Next]_vars

----------------------------------------------------------------------------
(* SpecDo: request.do applied to any request, as requestDoTests does *)

DoURLs ==
    { [Scheme |-> <<"h", "t", "t", "p">>, Host |-> <<"f", ".", "c">>, Path |-> <<>>, RawQuery |-> q] :
        q \in { <<>>, <<"z", "=", "1">>, <<"z", "=", "1", "&", "a", "=", "0">> } }

DoMethods == { GET, HEAD, POST, <<"P", "U", "T">> }

DoHeaders == { EmptyMap, [k \in {ContentType} |-> <<<<"t">>>>] }

DoQueries ==
    { EmptyMap,
      [k \in {<<"q">>} |-> <<<<"v">>>>],
      [k \in {<<"q">>, <<"a">>} |-> IF k = <<"q">> THEN <<<<"v">>>> ELSE <<<<"2">>, <<"1">>>>] }

DoForms ==
    { EmptyMap,
      [k \in {<<"a">>} |-> <<<<"1">>>>],
      [k \in {<<"a">>, <<"b">>} |-> IF k = <<"a">> THEN <<<<"2">>, <<"1">>>> ELSE <<<<"1">>>>] }

DoJSONObjects ==
    { EmptyMap,
      [k \in {<<"a">>} |-> [kind |-> "string", val |-> <<"1">>]],
      [k \in {<<"a">>, <<"b">>} |->
          IF k = <<"a">> THEN [kind |-> "raw", val |-> <<"1">>]
          ELSE [kind |-> "string", val |-> <<"x">>]] }

\* The request is any request; p.useStdin says whether a stdin is passed.
InitDo ==
    /\ tok = <<>>
    /\ kv = NoKeyVal
    /\ ppc = "idle"
    /\ argv = <<>>
    /\ args = <<>>
    /\ \E stdin \in BOOLEAN : p = [NoParams EXCEPT !.useStdin = stdin]
    /\ \E u \in DoURLs, m \in DoMethods, h \in DoHeaders, q \in DoQueries,
          fm \in DoForms, j \in DoJSONObjects :
         req = [url |-> u, method |-> m, header |-> h, urlValues |-> q,
                form |-> fm, jsonObj |-> j]
    /\ httpReq = NoHTTPRequest
    /\ idx = 0
    /\ err = NoError
    /\ exitCode = -1
    /\ stdinRead = FALSE
    /\ resp = NoResponse
    /\ stdout = <<>>
    /\ stderr = <<>>
    /\ calls = 0
    /\ filesRead = <<>>
    /\ pc = "do"

NextDo == \E outcome \in DoOutcomes : Do(outcome)

SpecDo == InitDo /\ [][NextDo]_vars

----------------------------------------------------------------------------
(* SpecShow: showResponse and the end of main0 on any response *)

\* Content-Type values of a response; <<>> is a response without one.
ContentTypes ==
    { <<>>,
      ApplicationJSON,
      <<"a", "p", "p", "l", "i", "c", "a", "t", "i", "o", "n", "/", "j", "s", "o", "n", ";", " ", "c", "h", "a", "r", "s", "e", "t", "=", "u">>,
      <<"A", "p", "p", "l", "i", "c", "a", "t", "i", "o", "n", "/", "J", "S", "O", "N">>,
      <<"a", "p", "p", "l", "i", "c", "a", "t", "i", "o", "n", "/", "j", "s", "o", "n", "x">>,
      <<"t", "e", "x", "t", "/", "p", "l", "a", "i", "n">>,
      <<"a", "p", "p", "l", "i", "c", "a", "t", "i", "o", "n", "/", "j", "s", "o", "n", ";", " ", "x">>,
      <<"/", "j", "s", "o", "n">> }

Bodies ==
    { <<>>, <<"1">>, <<"1", "\n">>, <<"1", "\n", "\n">>, <<" ", "1">>, <<"{", "\"", "a", "\"", ":", "1", "}">>,
      <<"{", "\"", "a", "\"", ":", "1", "}", "\n">>, <<"x">> }

Statuses == { [code |-> 200, text |-> <<"2", "0", "0", " ", "O", "K">>],
              [code |-> 301, text |-> <<"3", "0", "1", " ", "M", "o", "v", "e", "d", " ", "P", "e", "r", "m", "a", "n", "e", "n", "t", "l", "y">>],
              [code |-> 500, text |-> <<"5", "0", "0", " ", "I", "n", "t", "e", "r", "n", "a", "l", " ", "S", "e", "r", "v", "e", "r", " ", "E", "r", "r", "o", "r">>],
              [code |-> 404, text |-> <<"4", "0", "4", " ", "N", "o", "t", " ", "F", "o", "u", "n", "d">>] }

OtherHeaders == { EmptyMap, [k \in {<<"A">>, <<"X">>} |-> <<<<"2">>, <<"1">>>>] }

Responses ==
    { [StatusCode |-> s.code, Status |-> s.text,
       Header |-> [k \in DOMAIN o \cup (IF c = <<>> THEN {} ELSE {ContentType})
                     |-> IF k = ContentType THEN <<c>> ELSE o[k]],
       Body |-> b, BodyErr |-> e] :
        s \in Statuses, c \in ContentTypes, b \in Bodies, o \in OtherHeaders,
        e \in BOOLEAN }

InitShow ==
    /\ tok = <<>>
    /\ kv = NoKeyVal
    /\ ppc = "idle"
    /\ argv = <<>>
    /\ args = <<>>
    /\ \E headers \in BOOLEAN, body \in BOOLEAN, raw \in BOOLEAN,
          checkStatus \in BOOLEAN :
         p = [NoParams EXCEPT !.headers = headers, !.body = body,
                              !.raw = raw, !.checkStatus = checkStatus,
                              !.method = GET]
    /\ req = NoRequest
    /\ httpReq = NoHTTPRequest
    /\ idx = 0
    /\ err = NoError
    /\ exitCode = -1
    /\ stdinRead = FALSE
    /\ resp \in Responses
    /\ stdout = <<>>
    /\ stderr = <<>>
    /\ calls = 0
    /\ filesRead = <<>>
    /\ pc = "showResponse"

NextShow ==
    \/ \E keepTrailing \in BOOLEAN : ShowResponse(keepTrailing)
    \/ Main0Return

SpecShow == InitShow /\ [][NextShow]_vars

----------------------------------------------------------------------------
(* What the grammar of request items says about a token, stated without    *)
(* the scanning loop.                                                      *)

\* The separators a request item may use.
ItemSeps ==
    { <<":">>, <<"=", "=">>, <<"=">>, <<":", "=">>, <<"@">>,
      <<"=", "@">>, <<":", "=", "@">> }

IsSepChar(c) == c \in {":", "=", "@"}

\* t occurs in s at position i.
StartsWith(s, i, t) ==
    /\ i + Len(t) - 1 <= Len(s)
    /\ SubSeq(s, i, i + Len(t) - 1) = t

\* Position i of s is escaped: it follows a backslash that is not itself
\* escaped.
RECURSIVE Escaped(_, _)
Escaped(s, i) == i > 1 /\ s[i - 1] = "\\" /\ ~Escaped(s, i - 1)

\* s from position i on with every escaping backslash removed.
RECURSIVE UnescapeFrom(_, _)
UnescapeFrom(s, i) ==
    IF i > Len(s) THEN <<>>
    ELSE (IF s[i] = "\\" /\ ~Escaped(s, i) THEN <<>> ELSE <<s[i]>>)
         \o UnescapeFrom(s, i + 1)

Unescape(s) == UnescapeFrom(s, 1)

\* The key written for the command line: a backslash before every separator
\* character and every backslash.
RECURSIVE EscapeKey(_)
EscapeKey(key) ==
    IF key = <<>> THEN <<>>
    ELSE (IF IsSepChar(Head(key)) \/ Head(key) = "\\"
            THEN <<"\\", Head(key)>> ELSE <<Head(key)>>)
         \o EscapeKey(Tail(key))

Decoded(s) == [i \in 1..Len(s) |-> IF s[i] = BadByte THEN RuneError ELSE s[i]]

ValidUTF8(s) == \A i \in 1..Len(s) : s[i] # BadByte

\* The unescaped positions of s where some separator starts.
SepStarts(s) ==
    {i \in 1..Len(s) : ~Escaped(s, i) /\ \E t \in ItemSeps : StartsWith(s, i, t)}

\* The leftmost of them, 0 when there is none.
LeftmostSep(s) ==
    IF SepStarts(s) = {} THEN 0
    ELSE CHOOSE i \in SepStarts(s) : \A j \in SepStarts(s) : i <= j

\* The position at which a successful parseKeyVal split the token.
SplitPos == Len(tok) - Len(kv.val) - Len(kv.sep) + 1

Returned == ppc = "return"
Parsed   == ppc = "return" /\ kv.err = ""

KeyVal(key, sep, val) == [err |-> "", key |-> key, sep |-> sep, val |-> val]


----------------------------------------------------------------------------
(* Claims about parseKeyVal, checked under SpecParse *)

\* Every way of reading tok as EscapeKey(key) \o sep \o value with a
\* non-empty key: the set of triples <<key, sep, value>>.
Readings ==
    { <<Unescape(SubSeq(tok, 1, i)), t, SliceFrom(tok, i + 1 + Len(t))>> :
        <<i, t>> \in { <<j, u>> \in (1..Len(tok)) \X ItemSeps :
                         /\ EscapeKey(Unescape(SubSeq(tok, 1, j))) = SubSeq(tok, 1, j)
                         /\ StartsWith(tok, j + 1, u) } }

\* The value does not turn the separator into a longer one:
\* sep \o value starts with no separator longer than sep.
NoLongerSep(sep, val) ==
    \A t \in ItemSeps : StartsWith(sep \o val, 1, t) => Len(t) <= Len(sep)

\* C1 as stated, for the keys that are valid UTF-8: for every non-empty key
\* written with its separator characters and backslashes escaped, every
\* separator and every value, parseKeyVal(escapedKey + sep + value) returns
\* exactly (key, sep, value).
C1_RoundTripAnyValue ==
    Returned =>
        \A r \in Readings : ValidUTF8(r[1]) => kv = KeyVal(r[1], r[2], r[3])

\* C1 as amended: the same for every value that does not extend the
\* separator into a longer separator (':' followed by '=', '=' followed by
\* '=' or '@', ':=' followed by '@').
C1_RoundTrip ==
    Returned =>
        \A r \in Readings :
            ValidUTF8(r[1]) /\ NoLongerSep(r[2], r[3])
                => kv = KeyVal(r[1], r[2], r[3])

\* C1 witness: the key ':' written '\:', separator '==', value 'k'.
C1_Witness ==
    /\ Returned
    /\ tok = <<"\\", ":", "=", "=", "k">>
    /\ <<(<<":">>), (<<"=", "=">>), (<<"k">>)>> \in Readings
    /\ kv = KeyVal(<<":">>, <<"=", "=">>, <<"k">>)

\* C2: at the position where parseKeyVal splits, the separator returned is
\* the longest separator that the rest of the token starts with; 'k:=@k'
\* yields ':=@', 'k:=k' yields ':=', 'k==k' yields '==', 'k=@k' yields '=@'.
C2_LongestSeparator ==
    /\ Parsed =>
        /\ kv.sep \in ItemSeps
        /\ StartsWith(tok, SplitPos, kv.sep)
        /\ \A t \in ItemSeps : StartsWith(tok, SplitPos, t) => Len(t) <= Len(kv.sep)
    /\ Returned /\ tok = <<"k", ":", "=", "@", "k">> => kv.sep = <<":", "=", "@">>
    /\ Returned /\ tok = <<"k", ":", "=", "k">> => kv.sep = <<":", "=">>
    /\ Returned /\ tok = <<"k", "=", "=", "k">> => kv.sep = <<"=", "=">>
    /\ Returned /\ tok = <<"k", "=", "@", "k">> => kv.sep = <<"=", "@">>

\* C2 witness: 'k:=@k' was split at ':=@', where ':=' and ':' match too.
C2_Witness ==
    /\ Parsed
    /\ tok = <<"k", ":", "=", "@", "k">>
    /\ StartsWith(tok, SplitPos, <<":">>)
    /\ StartsWith(tok, SplitPos, <<":", "=">>)
    /\ kv.sep = <<":", "=", "@">>

\* C3: parseKeyVal splits at the leftmost unescaped position where a
\* separator starts, and the value is the rest of the token after the
\* separator, unmodified: 'k:k=k' is key 'k', ':', value 'k=k', and a value
\* ending in a backslash keeps it.
C3_LeftmostSplitVerbatimValue ==
    /\ Parsed =>
        /\ LeftmostSep(tok) # 0
        /\ StartsWith(tok, LeftmostSep(tok), kv.sep)
        /\ kv.val = SliceFrom(tok, LeftmostSep(tok) + Len(kv.sep))
    /\ Returned /\ tok = <<"k", ":", "k", "=", "k">>
        => kv = KeyVal(<<"k">>, <<":">>, <<"k", "=", "k">>)
    /\ Returned /\ tok = <<"k", "=", "k", "\\">>
        => kv = KeyVal(<<"k">>, <<"=">>, <<"k", "\\">>)

\* C3 witness: a value holding a separator, a backslash and an invalid byte,
\* all returned as they were given.
C3_Witness ==
    /\ Parsed
    /\ tok = <<"k", ":", "=", "\\", BadByte>>
    /\ LeftmostSep(tok) = 2
    /\ kv.val = <<"\\", BadByte>>

C5_EmptyKey ==
    /\ Returned /\ LeftmostSep(tok) # 0
               /\ Unescape(SubSeq(tok, 1, LeftmostSep(tok) - 1)) = <<>>
        => kv = keyValError(ErrEmptyKey)
    /\ Returned /\ tok \in { <<":", "k">>, <<"=", "=">>, <<"=", "@", "k">>,
                            <<":", "=", "@">> }
        => kv.err = ErrEmptyKey

\* C5 witness: '=@k' was refused for its empty key.
C5_Witness ==
    /\ Returned
    /\ tok = <<"=", "@", "k">>
    /\ LeftmostSep(tok) = 1
    /\ kv.err = ErrEmptyKey

\* C6: parseKeyVal fails with 'no key-pair separator found' exactly when no
\* unescaped position of the token starts a separator: the empty token, a
\* token without separator characters, one whose separator characters are
\* all escaped, one ending in a dangling backslash.
C6_NoSeparator ==
    /\ Returned => (kv.err = ErrNoSep <=> SepStarts(tok) = {})
    /\ Returned /\ tok \in { <<>>, <<"k", "k">>, <<"k", "\\", ":", "\\", "=">>,
                            <<"k", "\\">> }
        => kv = keyValError(ErrNoSep)

\* C6 witness: 'k\:\=' holds separator characters, all escaped.
C6_Witness ==
    /\ Returned
    /\ tok = <<"k", "\\", ":", "\\", "=">>
    /\ SepStarts(tok) = {}
    /\ kv.err = ErrNoSep

----------------------------------------------------------------------------
(* Claims about parseArgs, newRequest and request.do, checked under Spec *)

\* newRequest returned a request: main0 went on to newClient and request.do.
Assembled ==
    \/ pc \in {"newClient", "do", "showResponse", "checkStatus"}
    \/ /\ pc = "exit"
       /\ err \in {NoError, ErrNewClient, ErrReadStdin, ErrDoRequest, ErrReadBody}

\* request.do handed the request to the client.
Sent == resp # NoResponse \/ (pc = "exit" /\ err = ErrDoRequest)

\* The first positional argument was taken as the method.
FirstIsMethod == Len(argv) > 0 /\ isMethod(argv[1])

\* The separators of the items that carry data.
DataSeps == { <<"=">>, <<"=", "@">>, <<":", "=">>, <<":", "=", "@">> }

HasDataItem == \E i \in 1..Len(p.keyVals) : p.keyVals[i].sep \in DataSeps

\* C7: after any number of items applied by addKeyVal in one pass, a pass
\* that ended in an error included, the form map and the JSON map are never
\* both non-empty.
C7_FormOrJSONNotBoth ==
    ~(DOMAIN req.form # {} /\ DOMAIN req.jsonObj # {})

\* C7 witness: a pass in JSON mode that stored one field and was then ended
\* by an item that is no JSON.
C7_Witness ==
    /\ pc = "exit"
    /\ err = ErrInvalidJSON
    /\ idx = 2
    /\ DOMAIN req.jsonObj # {}
    /\ DOMAIN req.form = {}

\* C8: with no method argument, the method of the request is POST if some
\* item uses '=', '=@', ':=' or ':=@' and GET otherwise; ':' and '==' items
\* never make it POST.
C8_MethodInferred ==
    Assembled /\ ~FirstIsMethod =>
        /\ Len(p.keyVals) = Len(argv) - 1
        /\ req.method = IF HasDataItem THEN POST ELSE GET
        /\ Sent => httpReq.Method = req.method

\* C8 witness: a raw JSON file item alone made the request a POST.
C8_Witness ==
    /\ Sent
    /\ ~FirstIsMethod
    /\ Len(p.keyVals) = 1
    /\ p.keyVals[1].sep = <<":", "=", "@">>
    /\ httpReq.Method = POST

\* s with its ASCII lower-case letters replaced by upper-case ones.
UpperCased(s) ==
    [i \in 1..Len(s) |->
        IF \E j \in 1..26 : LowerLetters[j] = s[i]
          THEN UpperLetters[CHOOSE j \in 1..26 : LowerLetters[j] = s[i]]
          ELSE s[i]]

\* What C9 says of a command line whose first argument is the method.
MethodArgumentRules ==
    /\ Len(argv) = 1 /\ pc # "parseArgs" => pc = "exit" /\ err = errUsage
    /\ Assembled =>
        /\ Len(p.keyVals) = Len(argv) - 2
        /\ req.method = UpperCased(argv[1])
        /\ Sent => httpReq.Method = UpperCased(argv[1])

\* C9 as stated: a first positional argument of ASCII letters only is taken
\* as the method (a URL must follow, or the result is the usage error), is
\* upper-cased, and is the method of the request whatever items follow.
C9_MethodArgumentAnyLetters ==
    FirstIsMethod => MethodArgumentRules

\* C9 as amended: the same for a first positional argument that is not
\* empty and holds ASCII letters only.
C9_MethodArgument ==
    FirstIsMethod /\ argv[1] # <<>> => MethodArgumentRules

\* C9 witness: 'pUt' before the URL and a data item after it: a PUT.
C9_Witness ==
    /\ Sent
    /\ argv[1] = <<"p", "U", "t">>
    /\ HasDataItem
    /\ httpReq.Method = <<"P", "U", "T">>

IsContentTypeItem(item) ==
    item.sep = <<":">> /\ CanonicalHeaderKey(item.key) = ContentType

\* The values the header items gave for Content-Type, in argument order.
SuppliedContentType ==
    LET given == SelectSeq(p.keyVals, IsContentTypeItem)
    IN  [i \in 1..Len(given) |-> given[i].val]

\* C10: when a header item supplies Content-Type, the request handed to the
\* client carries exactly the supplied value, in every body mode.
C10_ContentTypeKept ==
    Sent /\ SuppliedContentType # <<>> =>
        /\ ContentType \in DOMAIN httpReq.Header
        /\ httpReq.Header[ContentType] = SuppliedContentType

----------------------------------------------------------------------------
(* C11 - C13: request.do *)

NoBodyMethods == {GET, HEAD}

NoFields == DOMAIN req.form = {} /\ DOMAIN req.jsonObj = {}

\* C11: request.do takes the body from the form if the form map is not
\* empty; else from the JSON object if the JSON map is not empty; else from
\* stdin if the method is neither GET nor HEAD and a stdin was supplied; else
\* the body is empty.  Stdin is read in the third case only.
C11_BodyPriority ==
    /\ Sent =>
         /\ DOMAIN req.form # {} => httpReq.Body = ValuesEncode(req.form)
         /\ DOMAIN req.form = {} /\ DOMAIN req.jsonObj # {}
               => httpReq.Body = JSONMarshal(req.jsonObj)
         /\ NoFields /\ req.method \notin NoBodyMethods /\ p.useStdin
               => httpReq.Body = StdinData
         /\ NoFields /\ (req.method \in NoBodyMethods \/ ~p.useStdin)
               => httpReq.Body = <<>>
    /\ stdinRead =>
         NoFields /\ req.method \notin NoBodyMethods /\ p.useStdin

\* C11 witness: a POST with form fields, JSON fields and a stdin sent the
\* form and left stdin alone.
C11_Witness ==
    /\ Sent
    /\ DOMAIN req.form # {}
    /\ DOMAIN req.jsonObj # {}
    /\ p.useStdin
    /\ req.method = POST
    /\ httpReq.Body = <<"a", "=", "2", "&", "a", "=", "1", "&", "b", "=", "1">>
    /\ ~stdinRead

\* C12: with --stdin, tokens that populate the form map or the JSON map make
\* request construction fail (exit code 2; the stdin-and-body error once
\* every token was applied): no request is made and stdin is not read.
C12_StdinConflictRejected ==
    p.useStdin /\ ~NoFields =>
        /\ pc \in {"addKeyVals", "exit"}
        /\ pc = "exit" => exitCode = 2
        /\ pc = "exit" /\ idx > Len(p.keyVals) => err = ErrStdinAndBody
        /\ httpReq = NoHTTPRequest
        /\ resp = NoResponse
        /\ ~stdinRead

\* C12 witness: --stdin --json with a JSON field ended in the conflict error.
C12_Witness ==
    /\ pc = "exit"
    /\ p.useStdin
    /\ DOMAIN req.jsonObj # {}
    /\ err = ErrStdinAndBody
    /\ exitCode = 2
    /\ ~stdinRead

\* request.do is running in this step.
DoStep == pc = "do" /\ pc' # "do"

\* C13: request.do keeps the query of the URL as it is and appends the
\* encoded Query parameters to it, after '&' when the URL had a query; with
\* no Query parameters the query is unchanged.
C13_QueryAppended ==
    [][DoStep =>
        LET old == req.url.RawQuery
            new == httpReq'.URL.RawQuery
            enc == ValuesEncode(req.urlValues)
        IN  /\ req'.url = httpReq'.URL
            /\ httpReq'.URL = [req.url EXCEPT !.RawQuery = new]
            /\ DOMAIN req.urlValues = {} => new = old
            /\ DOMAIN req.urlValues # {} /\ old = <<>> => new = enc
            /\ DOMAIN req.urlValues # {} /\ old # <<>>
                  => new = old \o <<"&">> \o enc]_vars

\* C13 witness: ?z=1&a=0 with the parameters q=v, a=2, a=1 was sent as
\* z=1&a=0&a=2&a=1&q=v.
C13_Witness ==
    /\ Sent
    /\ DOMAIN req.urlValues = {<<"q">>, <<"a">>}
    /\ httpReq.URL.RawQuery = <<"z", "=", "1", "&", "a", "=", "0", "&", "a", "=", "2", "&", "a", "=", "1", "&", "q", "=", "v">>

----------------------------------------------------------------------------
(* C14: the order of the form-encoded body *)

IsDataString(item) == item.sep = <<"=">>

\* The command line has DataString tokens and no other token that fills the
\* form.
OnlyDataStrings ==
    /\ \E i \in 1..Len(p.keyVals) : IsDataString(p.keyVals[i])
    /\ \A i \in 1..Len(p.keyVals) : p.keyVals[i].sep # <<"=", "@">>

DataStrings == SelectSeq(p.keyVals, IsDataString)

FormPair(item) == QueryEscape(item.key) \o <<"=">> \o QueryEscape(item.val)

\* The pairs in the order of the tokens.
PairsInTokenOrder ==
    Join([i \in 1..Len(DataStrings) |-> FormPair(DataStrings[i])], <<"&">>)

\* The pairs grouped by key, the keys in byte order, the pairs of one key in
\* the order of their tokens.
PairsByKey ==
    LET keys == SortStrings({DataStrings[i].key : i \in 1..Len(DataStrings)})
        HasKey(k) == LET Test(item) == item.key = k
                     IN  SelectSeq(DataStrings, Test)
    IN  Join(Concat([i \in 1..Len(keys) |->
                [j \in 1..Len(HasKey(keys[i])) |->
                    FormPair(HasKey(keys[i])[j])]]), <<"&">>)

\* C14 as stated: with JSON mode off the form-encoded body lists the pairs
\* of the DataString tokens in the order the tokens were given.
C14_FormBodyInTokenOrder ==
    Sent /\ ~p.json /\ OnlyDataStrings => httpReq.Body = PairsInTokenOrder

\* C14 as amended: the pairs are grouped by key, the keys sorted, and the
\* pairs of one key are in the order the tokens were given.
C14_FormBodyByKey ==
    Sent /\ ~p.json /\ OnlyDataStrings => httpReq.Body = PairsByKey

\* C14 witness: a=2 a=1 was sent as a=2&a=1.
C14_Witness ==
    /\ Sent
    /\ ~p.json
    /\ OnlyDataStrings
    /\ Len(DataStrings) = 2
    /\ httpReq.Body = <<"a", "=", "2", "&", "a", "=", "1">>

----------------------------------------------------------------------------
(* C15 - C18: the request items applied by addKeyVal *)

\* newRequest is about to apply item idx.
Applying == pc = "addKeyVals" /\ idx <= Len(p.keyVals)

\* The step applied item idx / the step refused it.
AppliedStep == Applying /\ idx' = idx + 1
RefusedStep == Applying /\ pc' = "exit"

Item == p.keyVals[idx]

\* The last value of a key of a multi-valued map.
LastOf(m, key) == m[key][Len(m[key])]

FileSeps == { <<"=", "@">>, <<":", "=", "@">> }

\* The value an item carries: the contents of the file for a file variant.
Carried(item) == IF item.sep \in FileSeps THEN FileData(item.val) ELSE item.val

\* The accumulator the separator selects.
Selects(sep) ==
    CASE sep = <<":">>      -> "header"
      [] sep = <<"=", "=">> -> "urlValues"
      [] sep \in { <<"=">>, <<"=", "@">> } -> IF p.json THEN "jsonObj" ELSE "form"
      [] sep \in { <<":", "=">>, <<":", "=", "@">> } -> "jsonObj"

Accumulators == {"header", "urlValues", "form", "jsonObj"}

\* C15: a token that is applied changes only the accumulator its separator
\* selects (':' the headers, '==' the query, '=' and '=@' the JSON map in
\* JSON mode and the form otherwise, ':=' and ':=@' the JSON map), which
\* then holds the token's value; the other accumulators, the URL and the
\* method are unchanged.
C15_OneAccumulator ==
    [][AppliedStep =>
        LET sel == Selects(Item.sep)
            key == IF sel = "header" THEN CanonicalHeaderKey(Item.key)
                   ELSE Item.key
        IN  /\ \A a \in Accumulators \ {sel} : req'[a] = req[a]
            /\ req'.url = req.url
            /\ req'.method = req.method
            /\ key \in DOMAIN req'[sel]
            /\ IF sel = "jsonObj"
                 THEN req'.jsonObj[key].val = Carried(Item)
                 ELSE LastOf(req'[sel], key) = Carried(Item)]_vars

\* C15 witness: in JSON mode a header and a data field were applied, and the
\* form is empty.
C15_Witness ==
    /\ pc = "addKeyVals"
    /\ idx = 3
    /\ p.json
    /\ DOMAIN req.header = {<<"H">>}
    /\ DOMAIN req.jsonObj = {<<"a">>}
    /\ DOMAIN req.form = {}
    /\ DOMAIN req.urlValues = {}

\* The items applied so far.
AppliedItems == SubSeq(p.keyVals, 1, idx - 1)

\* The values the applied items with one of the separators carry for a key.
ValuesGiven(seps, key, Canon(_)) ==
    LET Test(item) == item.sep \in seps /\ Canon(item.key) = key
        given == SelectSeq(AppliedItems, Test)
    IN  [i \in 1..Len(given) |-> Carried(given[i])]

KeysGiven(seps, Canon(_)) ==
    { Canon(AppliedItems[i].key) :
        i \in {j \in 1..Len(AppliedItems) : AppliedItems[j].sep \in seps} }

SameKey(key) == key

\* The map holds what the applied items with the separators gave it.
HoldsGiven(m, seps, Canon(_)) ==
    /\ DOMAIN m = KeysGiven(seps, Canon)
    /\ \A key \in DOMAIN m : m[key] = ValuesGiven(seps, key, Canon)

\* C16: while newRequest applies the items, the headers, the query
\* parameters and (JSON mode off) the form hold under each key the values of
\* all the items given for that key so far, in the order of the arguments;
\* an item that is refused is no Header and no Query item.
C16_MultiValued ==
    /\ pc = "addKeyVals" =>
         /\ HoldsGiven(req.header, { <<":">> }, CanonicalHeaderKey)
         /\ HoldsGiven(req.urlValues, { <<"=", "=">> }, SameKey)
         /\ ~p.json => HoldsGiven(req.form, { <<"=">>, <<"=", "@">> }, SameKey)
    /\ pc = "exit" /\ req.method # <<>> /\ idx <= Len(p.keyVals)
         => p.keyVals[idx].sep \notin { <<":">>, <<"=", "=">> }

\* C16 witness: h:v h:v left both values under H.
C16_Witness ==
    /\ pc = "addKeyVals"
    /\ idx = 3
    /\ DOMAIN req.header = {<<"H">>}
    /\ req.header[<<"H">>] = <<<<"v">>, <<"v">>>>

\* C17: a ':=' item is refused when JSON mode is off, and refused as invalid
\* JSON when JSON mode is on and the value is no JSON text; the request is
\* then unchanged and main0 exits with code 2.  In JSON mode a JSON text is
\* stored raw, so k:=1 is sent as the number 1 and k=1 as the string "1".
C17_JsonValue ==
    /\ [][Applying /\ Item.sep = <<":", "=">> =>
            IF ~p.json
              THEN /\ RefusedStep /\ err' = ErrNeedJSON /\ exitCode' = 2
                   /\ req' = req
            ELSE IF ~ValidJSON(Item.val)
              THEN /\ RefusedStep /\ err' = ErrInvalidJSON /\ exitCode' = 2
                   /\ req' = req
            ELSE /\ AppliedStep
                 /\ req'.jsonObj[Item.key] = [kind |-> "raw", val |-> Item.val]
         ]_vars
    /\ [](Sent /\ p.json /\ Len(p.keyVals) = 1 =>
            LET item == p.keyVals[1]
                member(v) == <<"{">> \o JSONString(item.key) \o <<":">> \o v
                             \o <<"}">>
            IN  /\ item.sep = <<":", "=">>
                      => httpReq.Body = member(item.val)
                /\ item.sep = <<"=">>
                      => httpReq.Body = member(<<"\"">> \o item.val \o <<"\"">>))

\* C17 witness: in JSON mode a:=x ended the invocation with the invalid-JSON
\* error.
C17_Witness ==
    /\ pc = "exit"
    /\ p.json
    /\ idx \in 1..Len(p.keyVals)
    /\ p.keyVals[idx].sep = <<":", "=">>
    /\ err = ErrInvalidJSON
    /\ exitCode = 2
    /\ httpReq = NoHTTPRequest

\* The item with the file's contents in the place of the path.
Inline(item) ==
    [item EXCEPT !.sep = SubSeq(item.sep, 1, Len(item.sep) - 1),
                 !.val = FileData(item.val)]

\* C18: k=@path leaves the request as k=<contents> does and k:=@path as
\* k:=<contents> does, the errors included, and both infer the method as
\* their inline variants do; when the file cannot be read the item is
\* refused, the request is unchanged and main0 exits with code 2.
C18_FileVariant ==
    /\ [][Applying /\ Item.sep \in FileSeps =>
            IF Item.val \in ReadableFiles
              THEN LET inline == addKeyVal(req, p, Inline(Item))
                   IN  /\ req' = inline.req
                       /\ IF inline.err = NoError
                            THEN AppliedStep
                            ELSE RefusedStep /\ err' = inline.err /\ exitCode' = 2
              ELSE /\ RefusedStep /\ exitCode' = 2 /\ req' = req
                   /\ err' \notin {NoError, ErrNeedJSON, ErrInvalidJSON}
         ]_vars
    /\ [][pc = "parseKeyVals" /\ idx' = idx + 1
            /\ p'.keyVals[idx].sep \in FileSeps =>
            p'.method = IF p.method = <<>> THEN POST ELSE p.method]_vars

\* C18 witness: a=@f put the contents of f, 1, in the form.
C18_Witness ==
    /\ pc = "addKeyVals"
    /\ idx = 2
    /\ p.keyVals[1] = [err |-> "", key |-> <<"a">>, sep |-> <<"=", "@">>, val |-> <<"f">>]
    /\ ~p.json
    /\ req.form = [k \in {<<"a">>} |-> <<<<"1">>>>]

----------------------------------------------------------------------------
(* C19, C20: showResponse *)

\* showResponse was called and is over.
Shown == pc = "checkStatus" \/ (pc = "exit" /\ resp # NoResponse)

\* The Content-Type values of the model whose media type is
\* application/json, in any case of the letters and with any parameters.
JSONContentTypes ==
    { <<"a", "p", "p", "l", "i", "c", "a", "t", "i", "o", "n", "/", "j", "s", "o", "n">>, <<"a", "p", "p", "l", "i", "c", "a", "t", "i", "o", "n", "/", "j", "s", "o", "n", ";", " ", "c", "h", "a", "r", "s", "e", "t", "=", "u">>,
      <<"A", "p", "p", "l", "i", "c", "a", "t", "i", "o", "n", "/", "J", "S", "O", "N">> }

JSONTyped ==
    /\ ContentType \in DOMAIN resp.Header
    /\ resp.Header[ContentType][1] \in JSONContentTypes

\* What showResponse wrote after the status line, the headers and the
\* blank line.
HeadWrites ==
    IF p.headers
      THEN 2 + Len(Concat([i \in 1..Len(SortStrings(DOMAIN resp.Header)) |->
                             resp.Header[SortStrings(DOMAIN resp.Header)[i]]]))
      ELSE 0

BodyWrites == SubSeq(stdout, HeadWrites + 1, Len(stdout))

\* The body was written indented: not as it came, and beginning with the
\* indented text.
WroteIndented ==
    /\ Len(BodyWrites) = 1
    /\ \E keepTrailing \in BOOLEAN :
         LET ind == rjsonIndent(resp.Body, keepTrailing)
         IN  ind.ok /\ HasPrefix(BodyWrites[1], ind.out)

WroteUnmodified == BodyWrites = <<resp.Body>>

\* The body is printed and reading it does not fail.
Printed == p.body /\ ~resp.BodyErr

Renderable == Printed /\ IsJSONText(TrimSpace(resp.Body))

----------------------------------------------------------------------------
(* C21: the status line and the headers come first, the names in order *)

StatusLine == <<"H", "T", "T", "P", "/", "1", ".", "1", " ">> \o resp.Status \o <<"\n">>

HeaderLine(k, j) == k \o <<":", " ">> \o resp.Header[k][j] \o <<"\n">>

HeaderPairs ==
    UNION { { <<k, j>> : j \in 1..Len(resp.Header[k]) } : k \in DOMAIN resp.Header }

\* Where in stdout the line of the j-th value of header k was written.
LineAt(k, j) == CHOOSE n \in 2..(HeadWrites - 1) : stdout[n] = HeaderLine(k, j)

HeadLines ==
    {StatusLine, <<"\n">>} \cup { HeaderLine(pr[1], pr[2]) : pr \in HeaderPairs }

\* C21: when header printing is requested, showResponse writes, before any
\* body byte and in this order, the status line, then a line for every
\* value of every response header, the header names in lexicographic order
\* and the values of one header in their original order, then exactly one
\* blank line; when header printing is not requested none of these are
\* written.
C21_HeadersFirstInOrder ==
    Shown =>
        IF p.headers
          THEN /\ Len(stdout) \in {HeadWrites, HeadWrites + 1}
               /\ HeadWrites = Cardinality(HeaderPairs) + 2
               /\ stdout[1] = StatusLine
               /\ \A pr \in HeaderPairs :
                    \E n \in 2..(HeadWrites - 1) :
                        stdout[n] = HeaderLine(pr[1], pr[2])
               /\ \A a \in HeaderPairs, b \in HeaderPairs :
                    \/ (a[1] # b[1] /\ StrLess(a[1], b[1]))
                    \/ (a[1] = b[1] /\ a[2] < b[2])
                    => LineAt(a[1], a[2]) < LineAt(b[1], b[2])
               /\ stdout[HeadWrites] = <<"\n">>
               /\ \A n \in 1..(HeadWrites - 1) : stdout[n] # <<"\n">>
               /\ Len(stdout) > HeadWrites => stdout[Len(stdout)] \notin HeadLines
          ELSE /\ Len(stdout) <= 1
               /\ \A n \in 1..Len(stdout) : stdout[n] \notin HeadLines

\* Headers were printed for a response with three headers, one of them with
\* two values, and the body after them.
C21_Witness ==
    /\ Shown
    /\ p.headers
    /\ Cardinality(DOMAIN resp.Header) = 3
    /\ Len(stdout) = HeadWrites + 1
    /\ stdout[Len(stdout)] # <<>>

----------------------------------------------------------------------------
(* C22: the exit code after a response that was shown *)

\* main0 returned after showResponse returned nil.
Completed == pc = "exit" /\ resp # NoResponse /\ err = NoError

StatusClass == resp.StatusCode \div 100

\* The first digit of the status line the server sent.
FirstDigit ==
    CHOOSE d \in 0..9 : <<"0", "1", "2", "3", "4", "5", "6", "7", "8", "9">>[d + 1] = resp.Status[1]

\* C22: after a request that completed and was rendered without error the
\* exit code is 0, unless the status-check option is enabled and the status
\* class is not 2xx: then it is the first digit of the status code
\* (status/100).  With status-check disabled a non-2xx response exits 0.
C22_ExitCodeIsStatusClass ==
    Completed =>
        /\ StatusClass = FirstDigit
        /\ IF p.checkStatus /\ StatusClass # 2
             THEN exitCode = FirstDigit
             ELSE exitCode = 0

\* A 404 with --check-status ended with exit code 4.
C22_Witness ==
    /\ Completed
    /\ p.checkStatus
    /\ resp.StatusCode = 404
    /\ exitCode = 4

----------------------------------------------------------------------------
(* C24: what makes showResponse fail, and what only warns *)

\* The Content-Type values of the model that mime.ParseMediaType rejects.
BadContentTypes == { <<"a", "p", "p", "l", "i", "c", "a", "t", "i", "o", "n", "/", "j", "s", "o", "n", ";", " ", "x">>, <<"/", "j", "s", "o", "n">> }

BadlyTyped ==
    /\ ContentType \in DOMAIN resp.Header
    /\ resp.Header[ContentType][1] \in BadContentTypes

Warned(w) == \E i \in 1..Len(stderr) : stderr[i] = w

ShowFailed == Shown /\ err # NoError

\* C24: showResponse returns an error only when reading the response body
\* stream fails.  Of a body that is printed and read without an error: an
\* unparseable Content-Type produces a warning, the raw body bytes and
\* success, and so does a body typed application/json that is not
\* well-formed JSON when it is to be indented.
C24_FailsOnlyOnReadFailure ==
    Shown =>
        /\ ShowFailed => resp.BodyErr /\ err = ErrReadBody
        /\ Printed /\ BadlyTyped =>
              Warned(WarnContentType) /\ WroteUnmodified /\ ~ShowFailed
        /\ Printed /\ JSONTyped /\ ~p.raw /\ ~IsJSONText(TrimSpace(resp.Body)) =>
              Warned(WarnPrettyPrint) /\ WroteUnmodified /\ ~ShowFailed

\* The body x came as application/json and was written as it came, with
\* the warning.
C24_Witness ==
    /\ Shown
    /\ Printed
    /\ JSONTyped
    /\ ~p.raw
    /\ resp.Body = <<"x">>
    /\ stderr = <<WarnPrettyPrint>>
    /\ stdout = <<resp.Body>>

\* The body came with the Content-Type /json and was written as it came,
\* with the warning.
C24_WitnessContentType ==
    /\ Shown
    /\ Printed
    /\ BadlyTyped
    /\ resp.Body = <<"1">>
    /\ stderr = <<WarnContentType>>
    /\ stdout = <<resp.Body>>

\* Reading the body of a JSON response failed and showResponse returned the
\* error.
C24_WitnessReadFailure == ShowFailed /\ JSONTyped /\ exitCode = 1

----------------------------------------------------------------------------
(* C25: a body that cannot be read *)

\* C25: whenever the response body cannot be read while it is being
\* rendered, in the JSON re-indent path and in the raw pass-through path
\* alike, the invocation fails with a render error and exit code 1.
C25_UnreadableBodyFails ==
    Shown /\ p.body /\ resp.BodyErr =>
        pc = "exit" /\ err = ErrReadBody /\ exitCode = 1

----------------------------------------------------------------------------
(* C23: exit code 2 for usage failures, 1 for runtime failures *)

\* The errors of argument parsing, token parsing and request assembly.
AssemblyErrors ==
    { errUsage, ErrInvalidURL, ErrCannotParse(ErrEmptyKey),
      ErrCannotParse(ErrNoSep), ReadFile(<<"n">>).err, ErrInvalidJSON,
      ErrNeedJSON, ErrStdinAndBody }

TransportFailed == pc = "exit" /\ err = ErrDoRequest

\* The body was to be written and could not be read.
RenderFailed == Shown /\ p.body /\ resp.BodyErr

\* C23: every failure of argument parsing, token parsing or request
\* assembly ends the invocation with exit code 2, and every transport or
\* render failure ends it with exit code 1.
C23_ExitCodeByFailure ==
    /\ pc = "exit" /\ err \in AssemblyErrors => exitCode = 2
    /\ TransportFailed => exitCode = 1
    /\ RenderFailed => pc = "exit" /\ exitCode = 1

----------------------------------------------------------------------------
(* C26: one request for each invocation at most *)

Exited == pc = "exit"

\* The client could not be made, or the body could not be read from
\* standard input: main0 ended before client.Do.
ClientOrStdinFailed == Exited /\ err \in {ErrNewClient, ErrReadStdin}

\* C26 as stated: in any invocation at most one request is handed to the
\* HTTP client: exactly one when argument parsing and assembly succeed,
\* none when they fail, and a transport error is never followed by a
\* second attempt.
C26_OneRequest ==
    /\ calls <= 1
    /\ Exited /\ Assembled => calls = 1
    /\ Exited /\ ~Assembled => calls = 0
    /\ TransportFailed => calls = 1

\* C26 as amended: exactly one when argument parsing and assembly succeed,
\* the HTTP client is made and standard input, when the body comes from it,
\* is read; the rest as stated.
C26_OneRequestOnceClientIsMade ==
    /\ calls <= 1
    /\ Exited /\ Assembled /\ ~ClientOrStdinFailed => calls = 1
    /\ ClientOrStdinFailed => calls = 0
    /\ Exited /\ ~Assembled => calls = 0
    /\ TransportFailed => calls = 1

\* The one request failed in the transport and main0 ended.
C26_Witness ==
    /\ TransportFailed
    /\ calls = 1
    /\ httpReq # NoHTTPRequest
    /\ exitCode = 1

----------------------------------------------------------------------------
(* C27: nothing is applied before every token has parsed *)

\* The arguments after the method and the URL.
RequestItems == SubSeq(argv, IF FirstIsMethod THEN 3 ELSE 2, Len(argv))

\* The tokens of the model that do not parse: an empty key, no separator.
UnparseableTokens == { <<":", "x">>, <<"k">> }

SomeTokenUnparseable ==
    \E i \in 1..Len(RequestItems) : RequestItems[i] \in UnparseableTokens

ParseErrors == { ErrCannotParse(ErrEmptyKey), ErrCannotParse(ErrNoSep) }

\* C27: no token is applied until every token has parsed: if any token of
\* the argument list, even the last one, fails to parse, no request-item
\* file is read and no accumulator is modified, and the error reported is
\* the parse error, not the assembly error of an earlier token.
C27_ParsedBeforeApplied ==
    SomeTokenUnparseable =>
        /\ filesRead = <<>>
        /\ \A a \in Accumulators : req[a] = EmptyMap
        /\ idx <= Len(RequestItems)
        /\ pc \in {"parseArgs", "parseKeyVals", "exit"}
        /\ Exited => err \in ParseErrors /\ exitCode = 2

\* The file of the first token is not there and the second token has no
\* separator: the parse error was reported.
C27_Witness ==
    /\ Exited
    /\ RequestItems = << <<"a", "=", "@", "n">>, <<"k">> >>
    /\ err = ErrCannotParse(ErrNoSep)
    /\ filesRead = <<>>

----------------------------------------------------------------------------
(* C28: the JSON map holds the last value given for a key *)

\* The applied items that carry data.
DataGiven ==
    LET IsData(item) == item.sep \in DataSeps
    IN  SelectSeq(AppliedItems, IsData)

\* The last of them given for the key.
LastGiven(key) ==
    DataGiven[CHOOSE i \in 1..Len(DataGiven) :
                /\ DataGiven[i].key = key
                /\ \A j \in (i + 1)..Len(DataGiven) : DataGiven[j].key # key]

\* '=' and '=@' give a string, ':=' and ':=@' raw JSON.
KindOf(item) ==
    IF item.sep \in { <<"=">>, <<"=", "@">> } THEN "string" ELSE "raw"

\* How many of them were given for the key.
TimesGiven(key) ==
    Cardinality({ i \in 1..Len(DataGiven) : DataGiven[i].key = key })

\* newRequest is in its loop or has returned the request.
Building == pc = "addKeyVals" \/ Assembled

\* C28: in JSON mode the JSON map is single-valued: after any sequence of
\* '=', '=@', ':=' and ':=@' tokens it holds one entry for each distinct
\* key, whose value and kind (string or raw JSON) are those of the last
\* token given for that key, the earlier ones being discarded; in form
\* mode the values of a key accumulate.
C28_JSONMapHoldsLast ==
    Building =>
        IF p.json
          THEN /\ DOMAIN req.jsonObj = { DataGiven[i].key : i \in 1..Len(DataGiven) }
               /\ \A key \in DOMAIN req.jsonObj :
                    req.jsonObj[key] = [kind |-> KindOf(LastGiven(key)),
                                        val  |-> Carried(LastGiven(key))]
          ELSE /\ DOMAIN req.form = { DataGiven[i].key : i \in 1..Len(DataGiven) }
               /\ \A key \in DOMAIN req.form :
                    Len(req.form[key]) = TimesGiven(key)

\* a:=1 and then a=2 were applied in JSON mode: the map holds the string 2.
C28_Witness ==
    /\ Building
    /\ p.json
    /\ Len(DataGiven) = 2
    /\ KindOf(DataGiven[1]) = "raw"
    /\ DataGiven[1].key = DataGiven[2].key
    /\ req.jsonObj = [k \in { <<"a">> } |-> [kind |-> "string", val |-> <<"2">>]]

----------------------------------------------------------------------------
(* C29: the Content-Type of JSON mode *)

NoContentTypeGiven == SuppliedContentType = <<>>

\* The Content-Type values of the assembled request and, once request.do
\* has made it, of the request handed to the client.
CarriedContentType ==
    {IF ContentType \in DOMAIN req.header THEN req.header[ContentType] ELSE <<>>}
    \cup (IF Sent
           THEN {IF ContentType \in DOMAIN httpReq.Header
                   THEN httpReq.Header[ContentType] ELSE <<>>}
           ELSE {})

\* C29: with JSON mode on and no Content-Type header token the assembled
\* request carries Content-Type application/json, even when no JSON field
\* was supplied and the body is empty or taken from stdin; with JSON mode
\* off and an empty form map no Content-Type is added.
C29_JSONModeContentType ==
    Assembled /\ NoContentTypeGiven =>
        /\ p.json => CarriedContentType = { <<ApplicationJSON>> }
        /\ ~p.json /\ DOMAIN req.form = {} => CarriedContentType = { <<>> }

\* A plain GET in JSON mode: no item, no body, and the request handed to
\* the client says application/json.
C29_Witness ==
    /\ Sent
    /\ p.json
    /\ p.keyVals = <<>>
    /\ httpReq.Method = GET
    /\ httpReq.Body = <<>>
    /\ httpReq.Header[ContentType] = <<ApplicationJSON>>

\* The same with the body taken from stdin.
C29_WitnessStdin ==
    /\ Sent
    /\ p.json
    /\ stdinRead
    /\ DOMAIN req.jsonObj = {}
    /\ httpReq.Body = StdinData
    /\ httpReq.Header[ContentType] = <<ApplicationJSON>>

----------------------------------------------------------------------------
(* C30: the form file field '@' *)

FileFieldToken == <<"a", "@", "f">>

IsFileField(item) == item.sep = <<"@">>

\* The items parseArgs has parsed that are form file fields.
FileFields == { i \in 1..Len(p.keyVals) : IsFileField(p.keyVals[i]) }

\* newRequest returned the error of the item at idx.
RefusedAtItem == Exited /\ idx \in 1..Len(p.keyVals) /\ err \notin ParseErrors

\* C30: a token whose separator is '@' parses successfully but is always
\* rejected during assembly with the error 'separator not yet recognized',
\* whatever the mode flags: no request is issued, even though the same
\* token makes method inference choose POST.
C30_FileFieldRejected ==
    /\ \A i \in 1..Len(p.keyVals) :
          RequestItems[i] = FileFieldToken =>
              /\ p.keyVals[i].key = <<"a">>
              /\ p.keyVals[i].val = <<"f">>
              /\ IsFileField(p.keyVals[i])
    /\ FileFields # {} /\ ~FirstIsMethod => p.method = POST
    /\ Building => \A i \in FileFields : i >= idx
    /\ RefusedAtItem /\ idx \in FileFields =>
          err = ErrNotRecognized /\ exitCode = 2
    /\ FileFields # {} => calls = 0 /\ ~Assembled /\ httpReq = NoHTTPRequest

\* a@f alone, in JSON mode: POST was inferred and newRequest refused the
\* item.
C30_Witness ==
    /\ RefusedAtItem
    /\ p.json
    /\ RequestItems = <<FileFieldToken>>
    /\ FileFields = {1}
    /\ req.method = POST
    /\ err = ErrNotRecognized
    /\ calls = 0

\* The same in form mode.
C30_WitnessForm ==
    /\ RefusedAtItem
    /\ ~p.json
    /\ RequestItems = <<FileFieldToken>>
    /\ req.method = POST
    /\ err = ErrNotRecognized

====
